---- MODULE Spec2Model ----
(***************************************************************************)
(* A model of examples/python-issues.py: the discount calculator, the      *)
(* order-processing function, the two total calculators, the arithmetic    *)
(* helper and the OrderManager stub class.                                  *)
(*                                                                         *)
(* One caller invokes the functions one call at a time.  A call is chosen  *)
(* with its arguments, runs statement by statement, and ends either        *)
(* returned or raised.  Python numbers that need not be whole (prices,     *)
(* the 0.15/0.10/0.05 rates, the result of "/") are rationals num/den;     *)
(* within the bounds of the model every product and quotient the code      *)
(* computes is exact.                                                       *)
(***************************************************************************)
EXTENDS Integers, Sequences, FiniteSets, TLC

VARIABLES
    fn,       \* the function being called ("none" before the first call)
    pc,       \* "idle", "running", "returned" or "raised"
    args,     \* the arguments of the current call, as the caller passed them
    loc,      \* the local variables of the current call
    ret,      \* the value returned by the current call (Unset until it returns)
    console,  \* the lines printed since the current call began
    manager,  \* the attributes of the OrderManager instance
    globals   \* the module-level names and what they are bound to

vars == <<fn, pc, args, loc, ret, console, manager, globals>>

----------------------------------------------------------------------------
(* Bounds of the model *)

\* prices are the multiples of 1/PriceScale ...
PriceScale == 2
\* ... between -PriceMax and PriceMax
PriceMax == 102
\* calculate_total_a/b: at most this many items
MaxLineItems == 3
\* process_order: at most this many items ...
MaxItems == 2
\* ... holding at most this many variations altogether
MaxVariations == 2
\* do_work: x, y, z range over -MaxArg..MaxArg
MaxArg == 3

----------------------------------------------------------------------------
(* Python values *)

Rat(n, d) == [num |-> n, den |-> d]
RatMul(a, b) == Rat(a.num * b.num, a.den * b.den)
RatLt(a, b) == a.num * b.den < b.num * a.den
RatLe(a, b) == a.num * b.den <= b.num * a.den
RatEq(a, b) == a.num * b.den = b.num * a.den
RatInt(n) == Rat(n, 1)

PyNone == [type |-> "NoneType"]
PyTrue == [type |-> "bool", val |-> TRUE]
PyStr(s) == [type |-> "str", val |-> s]
PyNum(r) == [type |-> "number", val |-> r]
PyList(s) == [type |-> "list", val |-> s]
Unset == [type |-> "unset"]

\* Python's truth value of an object, as "if order_id:" tests it
Truthy(v) ==
    CASE v.type = "NoneType" -> FALSE
      [] v.type = "bool" -> v.val
      [] v.type = "str" -> v.val # ""
      [] v.type = "number" -> v.val.num # 0
      [] v.type = "list" -> v.val # <<>>

SeqsUpTo(S, n) == UNION {[1..k -> S] : k \in 0..n}

----------------------------------------------------------------------------
(* calculate_discount *)

DISCOUNT_HIGH_THRESHOLD == 100
DISCOUNT_LOW_THRESHOLD == 50
RATE_HIGH == Rat(15, 100)
RATE_MID == Rat(10, 100)
RATE_LOW == Rat(5, 100)

\* ">=" where line 8 has ">"
calculate_discount_ge(price) ==
    IF RatLe(RatInt(DISCOUNT_HIGH_THRESHOLD), price) THEN RatMul(price, RATE_HIGH)
    ELSE IF RatLt(RatInt(DISCOUNT_LOW_THRESHOLD), price) THEN RatMul(price, RATE_MID)
    ELSE RatMul(price, RATE_LOW)

\* the rates of lines 9 and 11 exchanged
calculate_discount_swapped(price) ==
    IF RatLt(RatInt(DISCOUNT_HIGH_THRESHOLD), price) THEN RatMul(price, RATE_MID)
    ELSE IF RatLt(RatInt(DISCOUNT_LOW_THRESHOLD), price) THEN RatMul(price, RATE_HIGH)
    ELSE RatMul(price, RATE_LOW)

\* lines 8-13
calculate_discount(price) ==
    IF RatLt(RatInt(DISCOUNT_HIGH_THRESHOLD), price) THEN RatMul(price, RATE_HIGH)
    ELSE IF RatLt(RatInt(DISCOUNT_LOW_THRESHOLD), price) THEN RatMul(price, RATE_MID)
    ELSE RatMul(price, RATE_LOW)

Prices == {Rat(n, PriceScale) : n \in (0 - PriceMax * PriceScale)..(PriceMax * PriceScale)}

CallDiscount ==
    /\ pc = "idle"
    /\ \E price \in Prices :
        /\ fn' = "calculate_discount"
        /\ args' = [price |-> price]
    /\ pc' = "running"
    /\ loc' = [line |-> 8]
    /\ ret' = Unset
    /\ console' = <<>>
    /\ UNCHANGED <<manager, globals>>

Discount ==
    /\ pc = "running"
    /\ fn = "calculate_discount"
    /\ ret' = PyNum(calculate_discount(args.price))
    /\ pc' = "returned"
    /\ UNCHANGED <<fn, args, loc, console, manager, globals>>

----------------------------------------------------------------------------
(* do_work *)

\* line 49: "/" is true division, the quotient is not rounded down
TrueDiv(n, d) == Rat(n, d)

\* "//", the quotient rounded down
FloorDiv(n, d) == Rat(n \div d, 1)

\* "//" where line 49 has "/"
do_work_floor(x, y, z) ==
    LET temp == x + y
        data == temp * z
        val == FloorDiv(data, 2)
    IN  val

\* lines 47-50
do_work(x, y, z) ==
    LET temp == x + y
        data == temp * z
        val == TrueDiv(data, 2)
    IN  val

WorkArgs == (0 - MaxArg)..MaxArg

CallDoWork ==
    /\ pc = "idle"
    /\ \E x \in WorkArgs, y \in WorkArgs, z \in WorkArgs :
        /\ fn' = "do_work"
        /\ args' = [x |-> x, y |-> y, z |-> z]
    /\ pc' = "running"
    /\ loc' = [line |-> 47]
    /\ ret' = Unset
    /\ console' = <<>>
    /\ UNCHANGED <<manager, globals>>

DoWork ==
    /\ pc = "running"
    /\ fn = "do_work"
    /\ ret' = PyNum(do_work(args.x, args.y, args.z))
    /\ pc' = "returned"
    /\ UNCHANGED <<fn, args, loc, console, manager, globals>>

----------------------------------------------------------------------------
(* OrderManager *)

Methods ==
    {"create_order", "update_order", "delete_order", "validate_order",
     "calculate_total", "apply_discount", "process_payment", "send_email",
     "send_sms", "log_activity", "generate_invoice", "print_receipt",
     "update_inventory", "check_stock", "calculate_shipping", "track_shipment",
     "handle_returns", "process_refund", "generate_report", "export_data",
     "import_data"}

\* the instance after OrderManager() : the class defines no __init__
NewOrderManager == {}

\* a method that remembers it was called
method_body_recording(self, method) ==
    [self |-> self \cup {method}, value |-> PyNone]

\* the body of every method is "pass": self is left alone, None is returned
method_body(self, method) ==
    [self |-> self, value |-> PyNone]

CallMethod ==
    /\ pc = "idle"
    /\ \E m \in Methods :
        /\ fn' = "OrderManager"
        /\ args' = [method |-> m]
    /\ pc' = "running"
    /\ loc' = [line |-> 54]
    /\ ret' = Unset
    /\ console' = <<>>
    /\ UNCHANGED <<manager, globals>>

Method ==
    /\ pc = "running"
    /\ fn = "OrderManager"
    /\ LET r == method_body(manager, args.method) IN
        /\ manager' = r.self
        /\ ret' = r.value
    /\ pc' = "returned"
    /\ UNCHANGED <<fn, args, loc, console, globals>>

----------------------------------------------------------------------------
(* calculate_total_a and calculate_total_b, run side by side on one list *)

LinePrices == {-1, 0, 3}
LineQuantities == {1, 2}
LineItems == [price : LinePrices, quantity : LineQuantities]
LineItemLists == SeqsUpTo(LineItems, MaxLineItems)

\* "total = ..." where the code has "total += ..."
total_a_body_assign(total, item) == item.price * item.quantity

\* line 36
total_a_body(total, item) == total + item.price * item.quantity

\* the price taken without the quantity
total_b_body_price(total, item) == total + item.price

\* line 42
total_b_body(total, item) == total + item.price * item.quantity

CallTotals ==
    /\ pc = "idle"
    /\ \E items \in LineItemLists :
        /\ fn' = "calculate_total"
        /\ args' = [items |-> PyList(items)]
    /\ pc' = "running"
    /\ loc' = [a |-> [line |-> 35, total |-> 0, i |-> 0],
               b |-> [line |-> 41, total |-> 0, i |-> 0]]
    /\ ret' = [a |-> Unset, b |-> Unset]
    /\ console' = <<>>
    /\ UNCHANGED <<manager, globals>>

\* lines 35-36: the loop of calculate_total_a takes the next item
TotalAStep ==
    /\ pc = "running"
    /\ fn = "calculate_total"
    /\ loc.a.line = 35
    /\ loc.a.i < Len(args.items.val)
    /\ loc' = [loc EXCEPT !.a.i = @ + 1,
                          !.a.total = total_a_body(@, args.items.val[loc.a.i + 1])]
    /\ UNCHANGED <<fn, pc, args, ret, console, manager, globals>>

\* line 37, reached when the loop is exhausted
TotalAReturn ==
    /\ pc = "running"
    /\ fn = "calculate_total"
    /\ loc.a.line = 35
    /\ loc.a.i = Len(args.items.val)
    /\ loc' = [loc EXCEPT !.a.line = 37]
    /\ ret' = [ret EXCEPT !.a = PyNum(RatInt(loc.a.total))]
    /\ pc' = IF loc.b.line = 43 THEN "returned" ELSE "running"
    /\ UNCHANGED <<fn, args, console, manager, globals>>

\* lines 41-42
TotalBStep ==
    /\ pc = "running"
    /\ fn = "calculate_total"
    /\ loc.b.line = 41
    /\ loc.b.i < Len(args.items.val)
    /\ loc' = [loc EXCEPT !.b.i = @ + 1,
                          !.b.total = total_b_body(@, args.items.val[loc.b.i + 1])]
    /\ UNCHANGED <<fn, pc, args, ret, console, manager, globals>>

\* line 43
TotalBReturn ==
    /\ pc = "running"
    /\ fn = "calculate_total"
    /\ loc.b.line = 41
    /\ loc.b.i = Len(args.items.val)
    /\ loc' = [loc EXCEPT !.b.line = 43]
    /\ ret' = [ret EXCEPT !.b = PyNum(RatInt(loc.b.total))]
    /\ pc' = IF loc.a.line = 37 THEN "returned" ELSE "running"
    /\ UNCHANGED <<fn, args, console, manager, globals>>

----------------------------------------------------------------------------
(* process_order *)

EXPENSIVE_THRESHOLD == 100

CheckedNames == {"order_id", "customer_name", "email", "phone", "address"}
UncheckedNames == {"city", "state", "zip_code", "payment_method", "shipping_method"}

\* an identifier or contact field: empty or filled in
FieldVals == {PyStr(""), PyStr("x")}

\* the five tested parameters: each filled in or falsy, the falsy ones all
\* empty strings or all None
CheckedVals ==
    UNION {[CheckedNames -> {falsy, PyStr("x")}] : falsy \in {PyNone, PyStr("")}}

\* a variation with a price at or just above the threshold, or without a price
VariationVals == {[price |-> EXPENSIVE_THRESHOLD], [price |-> EXPENSIVE_THRESHOLD + 1],
                  [sku |-> "v"]}

\* an item with up to n variations, or without the 'variations' key
ItemVals(n) ==
    {[variations |-> vs] : vs \in SeqsUpTo(VariationVals, n)} \cup {[name |-> "n"]}

HasKey(d, k) == k \in DOMAIN d

VariationCount(item) == IF HasKey(item, "variations") THEN Len(item.variations) ELSE 0

RECURSIVE ItemLists(_, _)
ItemLists(k, n) ==
    {<<>>} \cup
    IF k = 0 THEN {}
    ELSE UNION {{<<it>> \o r : r \in ItemLists(k - 1, n - VariationCount(it))} :
                it \in ItemVals(n)}

\* the items argument: a list of items, or an object that cannot be iterated
OrderItems == {PyList(l) : l \in ItemLists(MaxItems, MaxVariations)} \cup {PyNone}

Iterable(v) == v.type = "list"

\* lines 20-24 without the test of address
GuardPasses_no_address(a) ==
    /\ Truthy(a.order_id)
    /\ Truthy(a.customer_name)
    /\ Truthy(a.email)
    /\ Truthy(a.phone)

\* lines 20-24 with a further test of city
GuardPasses_city(a) ==
    /\ Truthy(a.order_id)
    /\ Truthy(a.customer_name)
    /\ Truthy(a.email)
    /\ Truthy(a.phone)
    /\ Truthy(a.address)
    /\ Truthy(a.city)

\* lines 20-24: the five nested ifs
GuardPasses(a) ==
    /\ Truthy(a.order_id)
    /\ Truthy(a.customer_name)
    /\ Truthy(a.email)
    /\ Truthy(a.phone)
    /\ Truthy(a.address)

\* ">=" where line 27 has ">"
IsExpensive_ge(variation) == variation.price >= EXPENSIVE_THRESHOLD

\* line 27
IsExpensive(variation) == variation.price > EXPENSIVE_THRESHOLD

\* a validating process_order would return False for an empty order
ReturnValue_validating(a) ==
    IF GuardPasses(a) /\ Truthy(a.items) THEN PyTrue ELSE [type |-> "bool", val |-> FALSE]

\* line 30
ReturnValue(a) == PyTrue

\* One statement of process_order.  s is the frame of the call: the line
\* about to run, the number i of items and j of variations of the current
\* item taken so far, the console, the return value and the status.
process_order_step(a, s) ==
    CASE s.line = 17 ->
            [s EXCEPT !.line = 20, !.console = Append(@, "Processing order...")]
      [] s.line = 20 ->
            IF GuardPasses(a) THEN [s EXCEPT !.line = 25] ELSE [s EXCEPT !.line = 30]
      [] s.line = 25 ->
            IF ~Iterable(a.items) THEN [s EXCEPT !.pc = "raised", !.exc = "TypeError"]
            ELSE IF s.i < Len(a.items.val)
                 THEN [s EXCEPT !.line = 26, !.i = @ + 1, !.j = 0]
                 ELSE [s EXCEPT !.line = 30]
      [] s.line = 26 ->
            LET item == a.items.val[s.i] IN
            IF ~HasKey(item, "variations") THEN [s EXCEPT !.pc = "raised", !.exc = "KeyError"]
            ELSE IF s.j < Len(item.variations)
                 THEN [s EXCEPT !.line = 27, !.j = @ + 1]
                 ELSE [s EXCEPT !.line = 25]
      [] s.line = 27 ->
            LET variation == a.items.val[s.i].variations[s.j] IN
            IF ~HasKey(variation, "price") THEN [s EXCEPT !.pc = "raised", !.exc = "KeyError"]
            ELSE IF IsExpensive(variation)
                 THEN [s EXCEPT !.line = 26, !.console = Append(@, "Expensive item")]
                 ELSE [s EXCEPT !.line = 26]
      [] s.line = 30 ->
            [s EXCEPT !.pc = "returned", !.ret = ReturnValue(a)]

\* the frame on entry
process_order_entry ==
    [line |-> 17, i |-> 0, j |-> 0, console |-> <<>>, ret |-> Unset,
     pc |-> "running", exc |-> "none"]

\* the whole call: the statements run until the call returns or raises
RECURSIVE process_order_run(_, _)
process_order_run(a, s) ==
    IF s.pc # "running" THEN s ELSE process_order_run(a, process_order_step(a, s))

\* the five parameters the body never names, all empty or all filled in
UncheckedVals == {[n \in UncheckedNames |-> v] : v \in FieldVals}

OrderArgs(checked, unchecked, items) ==
    [order_id |-> checked["order_id"], customer_name |-> checked["customer_name"],
     email |-> checked["email"], phone |-> checked["phone"],
     address |-> checked["address"], city |-> unchecked["city"],
     state |-> unchecked["state"], zip_code |-> unchecked["zip_code"],
     items |-> items, payment_method |-> unchecked["payment_method"],
     shipping_method |-> unchecked["shipping_method"]]

CallProcessOrder ==
    /\ pc = "idle"
    /\ \E checked \in CheckedVals, unchecked \in UncheckedVals,
          items \in OrderItems :
        /\ fn' = "process_order"
        /\ args' = OrderArgs(checked, unchecked, items)
    /\ pc' = "running"
    /\ loc' = [line |-> 17, i |-> 0, j |-> 0, exc |-> "none"]
    /\ ret' = Unset
    /\ console' = <<>>
    /\ UNCHANGED <<manager, globals>>

Frame == [line |-> loc.line, i |-> loc.i, j |-> loc.j, console |-> console,
          ret |-> ret, pc |-> pc, exc |-> loc.exc]

ProcessOrder ==
    /\ pc = "running"
    /\ fn = "process_order"
    /\ LET s == process_order_step(args, Frame) IN
        /\ loc' = [line |-> s.line, i |-> s.i, j |-> s.j, exc |-> s.exc]
        /\ console' = s.console
        /\ ret' = s.ret
        /\ pc' = s.pc
    /\ UNCHANGED <<fn, args, manager, globals>>

----------------------------------------------------------------------------
(* the caller *)

NoArgs == [none |-> 0]
NoLocals == [line |-> 0]

\* the caller drops the arguments and the result and is ready to call again
Finish ==
    /\ pc \in {"returned", "raised"}
    /\ fn' = "none"
    /\ pc' = "idle"
    /\ args' = NoArgs
    /\ loc' = NoLocals
    /\ ret' = Unset
    /\ console' = <<>>
    /\ UNCHANGED <<manager, globals>>

ModuleNames ==
    [calculate_discount |-> "function", process_order |-> "function",
     calculate_total_a |-> "function", calculate_total_b |-> "function",
     do_work |-> "function", OrderManager |-> "class"]

Init ==
    /\ fn = "none"
    /\ pc = "idle"
    /\ args = NoArgs
    /\ loc = NoLocals
    /\ ret = Unset
    /\ console = <<>>
    /\ manager = NewOrderManager
    /\ globals = ModuleNames

Next ==
    \/ CallDiscount
    \/ Discount
    \/ CallDoWork
    \/ DoWork
    \/ CallMethod
    \/ Method
    \/ CallTotals
    \/ TotalAStep
    \/ TotalAReturn
    \/ TotalBStep
    \/ TotalBReturn
    \/ CallProcessOrder
    \/ ProcessOrder
    \/ Finish

Spec == Init /\ [][Next]_vars

----------------------------------------------------------------------------
(* Properties *)

Min(S) == CHOOSE n \in S : \A m \in S : n <= m

\* C1: calculate_discount(price) returns price*0.15 when price > 100,
\* price*0.10 when 50 < price <= 100 and price*0.05 otherwise; price 100
\* gets the 0.10 rate, price 50 and every price <= 0 the 0.05 rate.
C1_DiscountTiers ==
    (fn = "calculate_discount" /\ pc = "returned") =>
        LET p == args.price
            r == ret.val
        IN  /\ ret.type = "number"
            /\ (p.num > 100 * p.den) => RatEq(r, Rat(15 * p.num, 100 * p.den))
            /\ (50 * p.den < p.num /\ p.num <= 100 * p.den)
                   => RatEq(r, Rat(10 * p.num, 100 * p.den))
            /\ (p.num <= 50 * p.den) => RatEq(r, Rat(5 * p.num, 100 * p.den))

\* a call with price exactly 100 has returned 10
C1_Witness ==
    /\ fn = "calculate_discount"
    /\ pc = "returned"
    /\ RatEq(args.price, RatInt(100))
    /\ RatEq(ret.val, RatInt(10))

\* the sum of price*quantity over the positions S of the list, every
\* position counted once
RECURSIVE SumOver(_, _)
SumOver(items, S) ==
    IF S = {} THEN 0
    ELSE LET n == CHOOSE n \in S : TRUE
         IN  items[n].price * items[n].quantity + SumOver(items, S \ {n})

\* C2: calculate_total_a(items) and calculate_total_b(items) each return
\* the sum of price*quantity over all items, duplicates included, and 0 for
\* the empty list.
C2_TotalIsSum ==
    (fn = "calculate_total") =>
        LET items == args.items.val
            sum == SumOver(items, 1..Len(items))
        IN  /\ ret.a # Unset => ret.a = PyNum(RatInt(sum))
            /\ ret.b # Unset => ret.b = PyNum(RatInt(sum))
            /\ (pc = "returned" /\ items = <<>>)
                   => ret.a = PyNum(RatInt(0)) /\ ret.b = PyNum(RatInt(0))
            /\ pc = "returned" => ret.a # Unset /\ ret.b # Unset

\* both have returned the total of a list that holds the same item twice
C2_Witness ==
    /\ fn = "calculate_total"
    /\ pc = "returned"
    /\ Len(args.items.val) >= 2
    /\ args.items.val[1] = args.items.val[2]
    /\ args.items.val[1] = [price |-> 3, quantity |-> 2]
    /\ ret.a = PyNum(RatInt(12))
    /\ ret.b = PyNum(RatInt(12))

\* C3: side by side on the same list, calculate_total_a and
\* calculate_total_b start from total 0, hold the same running total after
\* the same number of items, and return the same value.
C3_TotalsAgree ==
    (fn = "calculate_total") =>
        /\ loc.a.i = 0 => loc.a.total = 0
        /\ loc.b.i = 0 => loc.b.total = 0
        /\ loc.a.i = loc.b.i => loc.a.total = loc.b.total
        /\ pc = "returned" => ret.a = ret.b /\ ret.a.type = "number"

\* both loops have taken two items and hold a total that is not 0
C3_Witness ==
    /\ fn = "calculate_total"
    /\ pc = "running"
    /\ loc.a.i = 2
    /\ loc.b.i = 2
    /\ loc.a.total # 0
    /\ args.items.val[1].quantity = 2

\* C4: do_work(x, y, z) returns (x+y)*z/2 with an exact division: the
\* result doubled is (x+y)*z, also when (x+y)*z is odd or negative.
C4_DoWorkExact ==
    (fn = "do_work" /\ pc = "returned") =>
        /\ ret.type = "number"
        /\ ret.val.den > 0
        /\ 2 * ret.val.num = (args.x + args.y) * args.z * ret.val.den

\* a call whose (x+y)*z is odd and negative has returned
C4_Witness ==
    /\ fn = "do_work"
    /\ pc = "returned"
    /\ (args.x + args.y) * args.z < 0
    /\ ((args.x + args.y) * args.z) % 2 = 1

\* C5: no call changes its arguments, the OrderManager instance or the
\* module-level names; only process_order prints; an OrderManager method
\* does nothing else than return None.
C5_Frame ==
    [][ /\ pc = "running" => args' = args
        /\ manager' = manager
        /\ globals' = globals
        /\ Len(console') > Len(console) => fn = "process_order"
        /\ (pc = "running" /\ fn = "OrderManager")
               => ret' = PyNone /\ pc' = "returned" /\ console' = console ]_vars

\* an OrderManager method has returned
C5_Witness ==
    /\ fn = "OrderManager"
    /\ pc = "returned"
    /\ ret = PyNone
    /\ manager = NewOrderManager
    /\ args.method = "update_inventory"

\* items is a list whose items each have a list of variations with a price
WellFormed(items) ==
    /\ items.type = "list"
    /\ \A n \in 1..Len(items.val) :
        /\ "variations" \in DOMAIN items.val[n]
        /\ \A m \in 1..Len(items.val[n].variations) :
               "price" \in DOMAIN items.val[n].variations[m]

AllTruthy ==
    \A n \in {"order_id", "customer_name", "email", "phone", "address"} : Truthy(args[n])

\* C6: on well-formed input process_order raises nothing, terminates and
\* returns True, whatever the eleven parameters, an empty or missing
\* order_id, customer_name, email, phone or address and empty items included.
C6_NoValidation ==
    (fn = "process_order" /\ WellFormed(args.items)) =>
        /\ pc # "raised"
        /\ pc = "returned" => ret = PyTrue
        /\ LET end == process_order_run(args, Frame)
           IN  end.pc = "returned" /\ end.ret = PyTrue

\* a call without order_id and with no items has returned True
C6_Witness ==
    /\ fn = "process_order"
    /\ pc = "returned"
    /\ ret = PyTrue
    /\ args.order_id = PyNone
    /\ args.address = PyStr("x")
    /\ args.items = PyList(<<>>)

\* the variations of the first n items, in order
RECURSIVE Flat(_, _)
Flat(items, n) == IF n = 0 THEN <<>> ELSE Flat(items, n - 1) \o items[n].variations

\* one line "Expensive item" for each variation of vs priced above 100
LinesFor(vs) ==
    [k \in 1..Cardinality({n \in 1..Len(vs) : vs[n].price > 100}) |-> "Expensive item"]

\* the variations whose test (line 27) has run
Tested ==
    LET items == args.items.val IN
    CASE loc.line = 25 -> Flat(items, loc.i)
      [] loc.line = 26 -> Flat(items, loc.i - 1) \o SubSeq(items[loc.i].variations, 1, loc.j)
      [] loc.line = 27 ->
            Flat(items, loc.i - 1) \o SubSeq(items[loc.i].variations, 1, loc.j - 1)

\* C7: process_order prints "Processing order..." once and first, then, if
\* and only if the five tested parameters are all truthy, one
\* "Expensive item" per variation priced strictly above 100, item by item
\* and variation by variation in order, and nothing else.
C7_ConsoleOutput ==
    (fn = "process_order" /\ WellFormed(args.items)) =>
        LET items == args.items.val IN
        /\ loc.line = 17 => console = <<>>
        /\ loc.line = 20 => console = <<"Processing order...">>
        /\ loc.line \in {25, 26, 27} =>
               /\ AllTruthy
               /\ console = <<"Processing order...">> \o LinesFor(Tested)
        /\ loc.line = 30 =>
               console = <<"Processing order...">> \o
                         (IF AllTruthy THEN LinesFor(Flat(items, Len(items))) ELSE <<>>)
        /\ pc = "returned" => loc.line = 30

\* a call has printed one line for a variation at 101 and none for one at 100
C7_Witness ==
    /\ fn = "process_order"
    /\ pc = "returned"
    /\ args.items = PyList(<<[variations |-> <<[price |-> 100], [price |-> 101]>>]>>)
    /\ console = <<"Processing order...", "Expensive item">>

\* the arguments with the five parameters the body never names replaced
WithUnchecked(a, u) ==
    [a EXCEPT !.city = u["city"], !.state = u["state"], !.zip_code = u["zip_code"],
              !.payment_method = u["payment_method"],
              !.shipping_method = u["shipping_method"]]

\* C8: a call of process_order that differs from this one only in city,
\* state, zip_code, payment_method or shipping_method prints the same lines
\* and ends the same way with the same return value.
C8_IgnoresUnchecked ==
    (fn = "process_order" /\ pc \in {"returned", "raised"}) =>
        \A u \in [{"city", "state", "zip_code", "payment_method", "shipping_method"}
                      -> {PyStr(""), PyStr("x")}] :
            LET other == process_order_run(WithUnchecked(args, u), process_order_entry)
            IN  /\ other.console = console
                /\ other.ret = ret
                /\ other.pc = pc

\* a call with an empty city has printed a line for an expensive variation
C8_Witness ==
    /\ fn = "process_order"
    /\ pc = "returned"
    /\ args.city = PyStr("")
    /\ args.shipping_method = PyStr("")
    /\ AllTruthy
    /\ Len(console) = 3

\* the variations of vs that precede the first one without a price
PricedPrefix(vs) ==
    LET bad == {n \in 1..Len(vs) : "price" \notin DOMAIN vs[n]}
    IN  IF bad = {} THEN vs ELSE SubSeq(vs, 1, Min(bad) - 1)

\* the variations visited before the first malformed item or variation
BeforeDefect(items) ==
    IF items.type # "list" THEN <<>>
    ELSE LET bad == {n \in 1..Len(items.val) : ~WellFormed(PyList(<<items.val[n]>>))}
             first == Min(bad)
         IN  Flat(items.val, first - 1) \o
             (IF "variations" \in DOMAIN items.val[first]
              THEN PricedPrefix(items.val[first].variations) ELSE <<>>)

\* C9: with one of the five tested parameters falsy, process_order never
\* reads items: it prints only "Processing order..." and returns True, also
\* for malformed items.  With all five truthy and malformed items the call
\* ends in an error, after "Processing order..." and the lines of the
\* variations visited before the malformed one, and True is not returned.
C9_ItemsReadOnlyWhenGuarded ==
    (fn = "process_order") =>
        /\ ~AllTruthy =>
               /\ pc # "raised"
               /\ loc.line \in {17, 20, 30}
               /\ pc = "returned" =>
                      console = <<"Processing order...">> /\ ret = PyTrue
               /\ process_order_run(args, Frame).pc = "returned"
        /\ (AllTruthy /\ ~WellFormed(args.items)) =>
               /\ pc # "returned"
               /\ ret # PyTrue
               /\ process_order_run(args, Frame).pc = "raised"
               /\ pc = "raised" =>
                      console = <<"Processing order...">> \o
                                LinesFor(BeforeDefect(args.items))

\* a call has raised after printing a line for an expensive variation
C9_Witness ==
    /\ fn = "process_order"
    /\ pc = "raised"
    /\ loc.exc = "KeyError"
    /\ Len(args.items.val) = 2
    /\ console = <<"Processing order...", "Expensive item">>

\* C10: calculate_discount is monotone non-decreasing in price, also across
\* 50 and 100 and for negative prices; for price >= 0 the result lies
\* between 0 and price.
C10_DiscountMonotone ==
    (fn = "calculate_discount" /\ pc = "returned") =>
        LET p == args.price
            r == ret.val
        IN  /\ \A q \in Prices :
                /\ q.num * p.den <= p.num * q.den => RatLe(calculate_discount(q), r)
                /\ p.num * q.den <= q.num * p.den => RatLe(r, calculate_discount(q))
            /\ p.num >= 0 => RatLe(RatInt(0), r) /\ RatLe(r, p)

\* a call with a price just above 100 has returned
C10_Witness ==
    /\ fn = "calculate_discount"
    /\ pc = "returned"
    /\ RatLt(RatInt(100), args.price)
    /\ RatLt(args.price, RatInt(101))

====
